---- MODULE Spec2Model ----
(***************************************************************************)
(* State-machine model of js/app.js of the portfolio page: the particle    *)
(* background (createParticles, animateParticles, animate and the          *)
(* visibilitychange handler), the certificate carousel (setup, step,       *)
(* pause/resume) and the contact form (handleFormSubmit, validateField,    *)
(* showFieldError, showSuccessMessage), the theme (setupTheme,             *)
(* toggleTheme, updateTheme), the typewriter (setupTypewriter), the        *)
(* lightbox (openModal, closeModal) and the resize reload.                 *)
(*                                                                         *)
(* Numbers.  Particle coordinates are fixed-point integers, Scale units    *)
(* per world unit.  Carousel widths are whole pixels, times are whole      *)
(* milliseconds and the carousel offset px is kept in pixel-milliseconds   *)
(* (1000 * pixels), so that px += pxPerSecond * dt with dt = ms / 1000 is  *)
(* exact; a number is a record so that NaN and Infinity can be values.     *)
(* Field values are sequences of one-character strings.                    *)
(***************************************************************************)
EXTENDS Integers, Sequences, FiniteSets, TLC

VARIABLES
    \* ---- app state (IIFE) ----
    pc,             \* "loading" before init() has run, "ready" after
    hasThree,       \* window.THREE && elements.canvas
    hidden,         \* document.hidden
    mousePosition,  \* state.mousePosition
    particles,      \* state.particles # null
    positions,      \* geometry.attributes.position.array, one record per particle
    velocities,     \* particles.userData.velocities
    sizes,          \* geometry.attributes.size.array
    colors,         \* geometry.attributes.color.array
    timeUniform,    \* particles.material.uniforms.time.value
    animationId,    \* state.animationId, 0 for null
    rafQueue,       \* handles of the pending requestAnimationFrame(animate) callbacks
    nextRaf,        \* the handle the next requestAnimationFrame call returns
    \* ---- carousel (DOMContentLoaded handler) ----
    cpc,            \* "waiting" until waitForImages resolves, then "running"
    originalTotalWidth,
    pxPerSecond,
    px,             \* offset, in pixel-milliseconds
    last,           \* time of the previous step callback, ms
    running,
    stepPending,    \* number of pending requestAnimationFrame(step) callbacks
    clock,          \* performance.now(), ms
    measured,       \* what the width measurement summed to, before the fallback
    prevCallback,   \* history: the time at which step last ran (setup time before that)
    elapsed,        \* history: sum of the dt of all step callbacks, ms
    everPaused,     \* history: some step callback ran while running was false
    everLongStep,   \* history: some step callback ran while running with
                    \* pxPerSecond * dt >= originalTotalWidth
    resumedFrame,   \* history: a step callback ran while running after one ran while paused
    lastCarouselEvent, \* history: the last mouseenter/mouseleave/focusin/focusout on the carousel
    handledEvent,   \* history: the last of these events that a listener handled
    imgState,       \* each carousel image: "loading", "loaded" or "failed"
    imgResolved,    \* the images whose promise in waitForImages is resolved
    \* ---- lightbox and resize reload (waitForImages.then) ----
    modal,          \* aria-hidden of the modal, src and alt of its image, title, download href
    bodyOverflow,   \* document.body.style.overflow
    lastModalEvent, \* history: the last lightbox event handled
    resizeTimer,    \* the variable resizeTimer, 0 for undefined
    timers,         \* pending reload timers: handle -> time left and time since armed, ms
    nextTimer,      \* the handle the next setTimeout call of the resize listener returns
    reloads,        \* history: location.reload() calls so far
    sinceResize,    \* history: ms since the resize listener last ran, capped at the delay
    resizeAwaited,  \* history: a resize event occurred and no reload has followed yet
    \* ---- contact form ----
    values,         \* field.value of the three controls
    errorClass,     \* field.classList contains 'error'
    errorText,      \* textContent of the <name>-error element
    errorShown,     \* the <name>-error element has class 'show'
    notices,        \* the success divs in document.body: id -> timer and age
    lastEvent,      \* history: the form event or timer handled last
    didReset,       \* history: that handler called contactForm.reset()
    \* ---- theme and typewriter (IIFE) ----
    storedTheme,    \* localStorage.getItem('theme'), NullTheme when there is no entry
    prefersDark,    \* matchMedia('(prefers-color-scheme: dark)').matches
    currentTheme,   \* state.currentTheme
    dataTheme,      \* the data-theme attribute of the document element
    iconText,       \* textContent of .theme-toggle__icon
    toggleCount,    \* history: toggleTheme calls so far, counted up to 2
    themeBefore,    \* history: currentTheme before each of the last two toggles
    textContent,    \* elements.typewriterText.textContent
    currentIndex,   \* currentIndex of setupTypewriter
    isTyping,       \* state.isTyping
    typeTimers      \* pending setTimeout(typeNextCharacter) timers

particleVars == <<pc, hasThree, hidden, mousePosition, particles, positions,
                  velocities, sizes, colors, timeUniform, animationId,
                  rafQueue, nextRaf>>
carouselVars == <<cpc, originalTotalWidth, pxPerSecond, px, last, running,
                  stepPending, clock, measured, prevCallback, elapsed,
                  everPaused, everLongStep, resumedFrame, lastCarouselEvent,
                  handledEvent>>
loadVars == <<imgState, imgResolved>>
lightboxVars == <<modal, bodyOverflow, lastModalEvent>>
resizeVars == <<resizeTimer, timers, nextTimer, reloads, sinceResize, resizeAwaited>>
pageVars == <<loadVars, lightboxVars, resizeVars>>
formVars == <<values, errorClass, errorText, errorShown, notices, lastEvent, didReset>>
shellVars == <<storedTheme, prefersDark, currentTheme, dataTheme, iconText,
               toggleCount, themeBefore, textContent, currentIndex, isTyping,
               typeTimers>>
vars == <<particleVars, carouselVars, formVars, shellVars, pageVars>>

----------------------------------------------------------------------------
(* Bounds of the model *)

\* fixed-point units per world unit of the particle coordinates
Scale == 20000
\* particles modelled (the page creates particleCount of them)
NumParticles == 1
\* requestAnimationFrame handles the particle loop may use
MaxRafId == 3

Idx == 1..NumParticles

\* window.innerWidth / window.innerHeight
Viewport == [innerWidth |-> 1280, innerHeight |-> 720]

\* results of Math.random(), scaled by Scale: 0, one half, just below 1
RandSamples == {0, Scale \div 2, Scale - 1}

\* the eight Math.random() draws createParticles makes for one particle
CreationDraws ==
    { [x |-> u, y |-> u, z |-> u, vx |-> u, vy |-> u, vz |-> u, size |-> u, color |-> u]
        : u \in RandSamples }
    \cup { [x |-> Scale \div 2, y |-> Scale - 1, z |-> Scale \div 2, vx |-> 0,
            vy |-> 0, vz |-> Scale - 1, size |-> 0, color |-> Scale \div 2] }

\* the two Math.random() draws of a respawn (x, z)
RespawnDraws == { <<0, Scale - 1>>, <<Scale - 1, Scale \div 2>> }

\* Date.now() * 0.001 sampled at quarter turns: time = k * pi / 2; the phase
\* offsets i * 0.01 and i * 0.015 of the first particles are below 0.1 rad
\* and are left out
TimeSamples == 0..2
Sin(t) == CASE t % 4 = 0 -> 0 [] t % 4 = 1 -> 1 [] t % 4 = 2 -> 0 [] OTHER -> -1
Cos(t) == Sin(t + 1)

\* pointer positions reported by mousemove (clientX, clientY)
MouseSamples ==
    { [x |-> 0, y |-> 0],
      [x |-> Viewport.innerWidth, y |-> Viewport.innerHeight],
      [x |-> Viewport.innerWidth \div 2, y |-> Viewport.innerHeight \div 2] }

----------------------------------------------------------------------------
(* Theme and typewriter *)

\* no 'theme' entry in localStorage
NullTheme == "<null>"
\* attribute or text not set yet
Unset == "<unset>"
\* what localStorage may hold under 'theme' when the page loads: nothing,
\* the empty string, a value toggleTheme wrote, a value written by another
\* page of the same origin
StoredSamples == { NullTheme, "", "dark", "light", "auto" }

\* savedTheme || (prefersDark ? 'dark' : 'light')
initialTheme(saved, prefers) ==
    IF saved \notin { NullTheme, "" } THEN saved
    ELSE IF prefers THEN "dark" ELSE "light"

\* updateTheme(): the attribute and the icon for a theme
updateTheme(theme) ==
    [dataTheme |-> theme, iconText |-> IF theme = "dark" THEN "sun" ELSE "moon"]

\* setupTheme()
setupTheme ==
    LET theme == initialTheme(storedTheme, prefersDark)
    IN  /\ currentTheme' = theme
        /\ dataTheme' = updateTheme(theme).dataTheme
        /\ iconText' = updateTheme(theme).iconText
        /\ UNCHANGED <<storedTheme, prefersDark, toggleCount, themeBefore>>

\* toggleTheme(): the theme, the attribute, the icon and the stored entry afterwards
toggleThemeStoresOld(theme) ==
    LET new == IF theme = "dark" THEN "light" ELSE "dark"
    IN  [currentTheme |-> new, dataTheme |-> updateTheme(new).dataTheme,
         iconText |-> updateTheme(new).iconText, storedTheme |-> theme]

toggleTheme(theme) ==
    LET new == IF theme = "dark" THEN "light" ELSE "dark"
    IN  [currentTheme |-> new, dataTheme |-> updateTheme(new).dataTheme,
         iconText |-> updateTheme(new).iconText, storedTheme |-> new]

\* a click on the theme toggle
ToggleTheme ==
    /\ pc = "ready"
    /\ LET r == toggleTheme(currentTheme)
       IN  /\ currentTheme' = r.currentTheme
           /\ dataTheme' = r.dataTheme
           /\ iconText' = r.iconText
           /\ storedTheme' = r.storedTheme
    /\ toggleCount' = IF toggleCount < 2 THEN toggleCount + 1 ELSE 2
    /\ themeBefore' = IF Len(themeBefore) < 2 THEN Append(themeBefore, currentTheme)
                      ELSE <<themeBefore[2], currentTheme>>
    /\ UNCHANGED <<prefersDark, textContent, currentIndex, isTyping, typeTimers>>
    /\ UNCHANGED <<particleVars, carouselVars, formVars, pageVars>>

TYPEWRITER_TEXT ==
    <<"H", "i", ",", " ", "I", "'", "m", " ", "B", "e", "g", "a", "r", "i", " ",
      "S", "a", "i", "r", "a", "m">>

\* setupTypewriter(), the typewriter element being on the page
setupTypewriter ==
    /\ textContent' = << >>
    /\ isTyping' = TRUE
    /\ currentIndex' = 0
    /\ typeTimers' = typeTimers + 1

\* typeNextCharacter(): the text, the index and the flag afterwards, and
\* the timers it sets
typeNextCharacterAlwaysReschedules(text, index, typing) ==
    IF index < Len(TYPEWRITER_TEXT) /\ typing
    THEN [textContent |-> Append(text, TYPEWRITER_TEXT[index + 1]),
          currentIndex |-> index + 1, isTyping |-> typing, timers |-> 1]
    ELSE [textContent |-> text, currentIndex |-> index, isTyping |-> FALSE, timers |-> 1]

typeNextCharacter(text, index, typing) ==
    IF index < Len(TYPEWRITER_TEXT) /\ typing
    THEN [textContent |-> Append(text, TYPEWRITER_TEXT[index + 1]),
          currentIndex |-> index + 1, isTyping |-> typing, timers |-> 1]
    ELSE [textContent |-> text, currentIndex |-> index, isTyping |-> FALSE, timers |-> 0]

\* a pending typeNextCharacter timer fires
TypewriterTick ==
    /\ typeTimers > 0
    /\ LET r == typeNextCharacter(textContent, currentIndex, isTyping)
       IN  /\ textContent' = r.textContent
           /\ currentIndex' = r.currentIndex
           /\ isTyping' = r.isTyping
           /\ typeTimers' = typeTimers - 1 + r.timers
    /\ UNCHANGED <<storedTheme, prefersDark, currentTheme, dataTheme, iconText,
                   toggleCount, themeBefore>>
    /\ UNCHANGED <<particleVars, carouselVars, formVars, pageVars>>

----------------------------------------------------------------------------
(* Particle field *)

XBound == 20 * Scale
YBound == 15 * Scale
ZBound == 10 * Scale

Pink   == <<100, 49, 86>>
Cyan   == <<49, 91, 100>>
Orange == <<100, 72, 42>>

\* createParticles, loop body: position of one particle from its draws
createPosition(d) ==
    [x |-> (2 * d.x - Scale) * 20,
     y |-> d.y * 30 - 15 * Scale,
     z |-> (2 * d.z - Scale) * 10]

\* createParticles, loop body: velocity of one particle
createVelocity(d) ==
    [x |-> (2 * d.vx - Scale) \div 100,
     y |-> (3 * d.vy + Scale) \div 100,
     z |-> ((2 * d.vz - Scale) * 15) \div 2000]

\* createParticles, loop body: size of one particle
createSize(d) == 3 * d.size + Scale

\* createParticles, loop body: colour of one particle
createColor(d) ==
    IF 100 * d.color < 33 * Scale THEN Pink
    ELSE IF 100 * d.color < 66 * Scale THEN Cyan
    ELSE Orange

\* mouse parallax term: (pointer - extent / 2) * mouseInfluence, 0.0003 per pixel
parallax(pointer, extent) == ((2 * pointer - extent) * 3 * Scale) \div 20000

\* animateParticles, loop body for one particle
animateOne(p, v, t, mouse, rnd) ==
    LET x1 == p.x + v.x + (Sin(t) * Scale) \div 100
                  + parallax(mouse.x, Viewport.innerWidth)
        y1 == p.y + v.y - parallax(mouse.y, Viewport.innerHeight)
        z1 == p.z + v.z + (Cos(t) * 8 * Scale) \div 1000
        wrapY == y1 > YBound
        y2 == IF wrapY THEN -YBound ELSE y1
        x2 == IF wrapY THEN (2 * rnd[1] - Scale) * 20 ELSE x1
        z2 == IF wrapY THEN (2 * rnd[2] - Scale) * 10 ELSE z1
        x3 == IF x2 > XBound THEN -XBound ELSE x2
        x4 == IF x3 < -XBound THEN XBound ELSE x3
        z3 == IF z2 > ZBound THEN -ZBound ELSE z2
        z4 == IF z3 < -ZBound THEN ZBound ELSE z3
    IN  [x |-> x4, y |-> y2, z |-> z4]

\* animateParticles: the arrays after one call
animateParticlesMutVel(parts, pos, vel, tu, t, mouse, rnd) ==
    IF ~parts THEN [positions |-> pos, velocities |-> vel, time |-> tu]
    ELSE [positions |-> [i \in Idx |-> animateOne(pos[i], vel[i], t, mouse, rnd[i])],
          velocities |-> [i \in Idx |-> [vel[i] EXCEPT !.y = 0]],
          time |-> t]

animateParticles(parts, pos, vel, tu, t, mouse, rnd) ==
    IF ~parts THEN [positions |-> pos, velocities |-> vel, time |-> tu]
    ELSE [positions |-> [i \in Idx |-> animateOne(pos[i], vel[i], t, mouse, rnd[i])],
          velocities |-> vel,
          time |-> t]

\* animate(), called with document.hidden = hid, the callbacks in queue
\* still pending and the particle arrays pos, vel
animate(hid, queue, parts, pos, vel, tu, t, rnd) ==
    IF hid
    THEN /\ UNCHANGED <<animationId, nextRaf>>
         /\ rafQueue' = queue
         /\ positions' = pos
         /\ velocities' = vel
         /\ timeUniform' = tu
    ELSE LET r == animateParticles(parts, pos, vel, tu, t, mousePosition, rnd)
         IN  /\ animationId' = nextRaf
             /\ rafQueue' = queue \cup {nextRaf}
             /\ nextRaf' = nextRaf + 1
             /\ positions' = r.positions
             /\ velocities' = r.velocities
             /\ timeUniform' = r.time

\* createParticles() and startAnimation(), the body of setupThreeJsBackground
createAndStart ==
    \E d \in [Idx -> CreationDraws], t \in TimeSamples, rnd \in [Idx -> RespawnDraws] :
        /\ particles' = TRUE
        /\ sizes' = [i \in Idx |-> createSize(d[i])]
        /\ colors' = [i \in Idx |-> createColor(d[i])]
        /\ animate(hidden, rafQueue, TRUE,
                   [i \in Idx |-> createPosition(d[i])],
                   [i \in Idx |-> createVelocity(d[i])],
                   0, t, rnd)

\* setupThreeJsBackground()
setupThreeJsBackgroundNoGuard == createAndStart

setupThreeJsBackground ==
    IF hasThree
    THEN createAndStart
    ELSE UNCHANGED <<particles, positions, velocities, sizes, colors,
                     timeUniform, animationId, rafQueue, nextRaf>>

\* init(): setupTheme, setupTypewriter, setupThreeJsBackground and
\* setupEventListeners (the other setup functions touch no modelled state)
AppInit ==
    /\ pc = "loading"
    /\ pc' = "ready"
    /\ setupTheme
    /\ setupTypewriter
    /\ setupThreeJsBackground
    /\ UNCHANGED <<hasThree, hidden, mousePosition>>
    /\ UNCHANGED <<carouselVars, formVars, pageVars>>

\* a pending requestAnimationFrame(animate) callback runs
ParticleFrame ==
    /\ pc = "ready"
    /\ nextRaf <= MaxRafId
    /\ \E id \in rafQueue, t \in TimeSamples, rnd \in [Idx -> RespawnDraws] :
          animate(hidden, rafQueue \ {id}, particles, positions, velocities,
                  timeUniform, t, rnd)
    /\ UNCHANGED <<pc, hasThree, hidden, mousePosition, particles, sizes, colors>>
    /\ UNCHANGED <<carouselVars, formVars, shellVars, pageVars>>

\* the visibilitychange listener body, run with document.hidden = hid
onVisibilityChangeNoGuard(hid) ==
    IF ~hid
    THEN \E t \in TimeSamples, rnd \in [Idx -> RespawnDraws] :
            animate(hid, rafQueue, particles, positions, velocities, timeUniform, t, rnd)
    ELSE UNCHANGED <<animationId, rafQueue, nextRaf, positions, velocities, timeUniform>>

onVisibilityChange(hid) ==
    IF ~hid /\ animationId = 0
    THEN \E t \in TimeSamples, rnd \in [Idx -> RespawnDraws] :
            animate(hid, rafQueue, particles, positions, velocities, timeUniform, t, rnd)
    ELSE UNCHANGED <<animationId, rafQueue, nextRaf, positions, velocities, timeUniform>>

\* the page is hidden or shown (or a visibilitychange event repeats the
\* current state) and the listener runs
VisibilityChange ==
    /\ pc = "ready"
    /\ nextRaf <= MaxRafId
    /\ \E hid \in BOOLEAN :
          /\ hidden' = hid
          /\ onVisibilityChange(hid)
    /\ UNCHANGED <<pc, hasThree, mousePosition, particles, sizes, colors>>
    /\ UNCHANGED <<carouselVars, formVars, shellVars, pageVars>>

\* the mousemove listener
MouseMove ==
    /\ pc = "ready"
    /\ \E m \in MouseSamples :
          /\ m # mousePosition
          /\ mousePosition' = m
    /\ UNCHANGED <<pc, hasThree, hidden, particles, positions, velocities, sizes,
                   colors, timeUniform, animationId, rafQueue, nextRaf>>
    /\ UNCHANGED <<carouselVars, formVars, shellVars, pageVars>>

----------------------------------------------------------------------------
(* JavaScript numbers of the carousel: finite values, NaN and +/-Infinity *)

Num(n) == [k |-> "num", v |-> n]
NaN == [k |-> "nan", v |-> 0]
Infinity == [k |-> "inf", v |-> 1]
NegInfinity == [k |-> "inf", v |-> -1]

Sign(n) == IF n > 0 THEN 1 ELSE IF n < 0 THEN -1 ELSE 0

\* a + b
FAdd(a, b) ==
    IF a.k = "nan" \/ b.k = "nan" THEN NaN
    ELSE IF a.k = "inf" /\ b.k = "inf" THEN (IF a.v = b.v THEN a ELSE NaN)
    ELSE IF a.k = "inf" THEN a
    ELSE IF b.k = "inf" THEN b
    ELSE Num(a.v + b.v)

\* a - b
FSub(a, b) == FAdd(a, IF b.k = "nan" THEN NaN ELSE [b EXCEPT !.v = -b.v])

\* a * n for a finite integer n
FMulInt(a, n) ==
    IF a.k = "nan" THEN NaN
    ELSE IF a.k = "inf" THEN (IF n = 0 THEN NaN ELSE [k |-> "inf", v |-> a.v * Sign(n)])
    ELSE Num(a.v * n)

\* a >= b
FGe(a, b) ==
    IF a.k = "nan" \/ b.k = "nan" THEN FALSE
    ELSE IF a.k = "inf" /\ b.k = "inf" THEN a.v >= b.v
    ELSE IF a.k = "inf" THEN a.v = 1
    ELSE IF b.k = "inf" THEN b.v = -1
    ELSE a.v >= b.v

\* !a for a number: true of 0 and NaN
FNot(a) == a.k = "nan" \/ (a.k = "num" /\ a.v = 0)

\* isFinite(a)
isFinite(a) == a.k = "num"

\* Math.round(a / 6), ties towards +Infinity
FRoundDiv6(a) == IF a.k = "num" THEN Num((a.v + 3) \div 6) ELSE a

\* Math.max(n, a) for a finite n: NaN if a is NaN
FMax(n, a) ==
    IF a.k = "nan" THEN NaN
    ELSE IF a.k = "inf" THEN (IF a.v = 1 THEN a ELSE Num(n))
    ELSE Num(IF a.v > n THEN a.v ELSE n)

----------------------------------------------------------------------------
(* Carousel *)

\* original items in the track
MaxItems == 2
\* the latest time, ms, at which a carousel frame callback is modelled
MaxClock == 12000

\* rect.width of one item, px
WidthSamples == { Num(0), Num(60), Infinity }
\* parseFloat(getComputedStyle(track).gap || 0): a length, or NaN for 'normal'
GapSamples == { Num(0), Num(10), NaN }
\* performance.now() when waitForImages resolves, ms
SetupTimes == { 120, 350 }
\* time between two frame callbacks, ms: throttled frames and the long gap
\* after the tab was in the background
DtSamples == { 1000, 2000, 9000 }

FallbackWidth == 1000
MinSpeed == 30

RECURSIVE sumWidths(_, _, _)
\* the forEach that accumulates originalTotalWidth over originalItems
sumWidths(items, gap, i) ==
    IF i > Len(items) THEN Num(0)
    ELSE LET rest == sumWidths(items, gap, i + 1)
             here == IF i < Len(items) THEN FAdd(items[i], gap) ELSE items[i]
         IN  FAdd(here, rest)

\* the defensive fallback
fallbackNoFiniteTest(w) == IF FNot(w) THEN Num(FallbackWidth) ELSE w

fallback(w) == IF FNot(w) \/ ~isFinite(w) THEN Num(FallbackWidth) ELSE w

\* const pxPerSecond = Math.max(30, Math.round(originalTotalWidth / 6))
speedOf(w) == FMax(MinSpeed, FRoundDiv6(w))

\* originalTotalWidth in the unit of px (pixel-milliseconds)
period(w) == FMulInt(w, 1000)

\* step(now): the offset and last after the callback, and the callbacks it schedules
stepStrictWrap(now) ==
    LET dt == now - last
        px1 == FAdd(px, FMulInt(pxPerSecond, dt))
        px2 == IF FGe(px1, period(originalTotalWidth)) /\ px1 # period(originalTotalWidth)
               THEN FSub(px1, period(originalTotalWidth)) ELSE px1
    IN  [px |-> IF running THEN px2 ELSE px, last |-> now, raf |-> 1]

stepNoWrap(now) ==
    LET dt == now - last
        px1 == FAdd(px, FMulInt(pxPerSecond, dt))
    IN  [px |-> IF running THEN px1 ELSE px, last |-> now, raf |-> 1]

stepLastOnlyWhenRunning(now) ==
    LET dt == now - last
        px1 == FAdd(px, FMulInt(pxPerSecond, dt))
        px2 == IF FGe(px1, period(originalTotalWidth))
               THEN FSub(px1, period(originalTotalWidth)) ELSE px1
    IN  [px |-> IF running THEN px2 ELSE px,
         last |-> IF running THEN now ELSE last, raf |-> 1]

stepStopsWhenHidden(now) ==
    LET dt == now - last
        px1 == FAdd(px, FMulInt(pxPerSecond, dt))
        px2 == IF FGe(px1, period(originalTotalWidth))
               THEN FSub(px1, period(originalTotalWidth)) ELSE px1
    IN  [px |-> IF running THEN px2 ELSE px, last |-> now,
         raf |-> IF hidden THEN 0 ELSE 1]

step(now) ==
    LET dt == now - last
        px1 == FAdd(px, FMulInt(pxPerSecond, dt))
        px2 == IF FGe(px1, period(originalTotalWidth))
               THEN FSub(px1, period(originalTotalWidth)) ELSE px1
    IN  [px |-> IF running THEN px2 ELSE px, last |-> now, raf |-> 1]

\* carousel images
NumImages == 2
Images == 1..NumImages
ImgStates == { "loading", "loaded", "failed" }

\* img.complete when the DOMContentLoaded handler runs: true of an image
\* that has loaded and of one that is broken
complete(st) == st # "loading"

\* the once-listeners of an image that was not complete: the promises
\* resolved after event ev ("load" or "error") of image i
onImageEventLoadOnly(resolved, ev, i) ==
    IF ev = "load" THEN resolved \cup {i} ELSE resolved

onImageEvent(resolved, ev, i) ==
    IF ev \in { "load", "error" } THEN resolved \cup {i} ELSE resolved

\* image i finishes loading
ImageLoad ==
    /\ \E i \in Images :
          /\ imgState[i] = "loading"
          /\ imgState' = [imgState EXCEPT ![i] = "loaded"]
          /\ imgResolved' = onImageEvent(imgResolved, "load", i)
    /\ UNCHANGED <<carouselVars, lightboxVars, resizeVars>>
    /\ UNCHANGED <<particleVars, formVars, shellVars>>

\* image i fails to load
ImageError ==
    /\ \E i \in Images :
          /\ imgState[i] = "loading"
          /\ imgState' = [imgState EXCEPT ![i] = "failed"]
          /\ imgResolved' = onImageEvent(imgResolved, "error", i)
    /\ UNCHANGED <<carouselVars, lightboxVars, resizeVars>>
    /\ UNCHANGED <<particleVars, formVars, shellVars>>

\* waitForImages.then(...), run once Promise.all has resolved: measure,
\* fall back, start the loop, register the listeners
CarouselSetup ==
    /\ cpc = "waiting"
    /\ imgResolved = Images
    /\ \E n \in 0..MaxItems, gap \in GapSamples, now \in SetupTimes :
       \E items \in [1..n -> WidthSamples] :
          LET w == fallback(sumWidths(items, gap, 1))
          IN  /\ measured' = sumWidths(items, gap, 1)
              /\ originalTotalWidth' = w
              /\ pxPerSecond' = speedOf(w)
              /\ clock' = now
              /\ last' = now
              /\ prevCallback' = now
    /\ cpc' = "running"
    /\ px' = Num(0)
    /\ running' = TRUE
    /\ stepPending' = 1
    /\ UNCHANGED <<elapsed, everPaused, everLongStep, resumedFrame, lastCarouselEvent,
                   handledEvent>>
    /\ UNCHANGED <<particleVars, formVars, shellVars, pageVars>>

\* a pending requestAnimationFrame(step) callback runs, dt ms after the previous one
CarouselFrame ==
    /\ cpc = "running"
    /\ stepPending > 0
    /\ \E dt \in DtSamples :
          LET now == clock + dt
              r == step(now)
          IN  /\ now <= MaxClock
              /\ clock' = now
              /\ px' = r.px
              /\ last' = r.last
              /\ stepPending' = stepPending - 1 + r.raf
              /\ prevCallback' = now
              /\ elapsed' = elapsed + (now - prevCallback)
              /\ everPaused' = (everPaused \/ ~running)
              /\ everLongStep' = (everLongStep
                    \/ (running /\ FGe(FMulInt(pxPerSecond, now - prevCallback),
                                        period(originalTotalWidth))))
              /\ resumedFrame' = (resumedFrame \/ (everPaused /\ running))
    /\ UNCHANGED <<cpc, originalTotalWidth, pxPerSecond, running, measured,
                   lastCarouselEvent, handledEvent>>
    /\ UNCHANGED <<particleVars, formVars, shellVars, pageVars>>

PauseEvents == { "mouseenter", "focusin" }
ResumeEvents == { "mouseleave", "focusout" }

\* the listeners pause and resume as wired to the four events (lines
\* 635-638): the value of running after event ev; before waitForImages
\* has resolved no listener is registered
carouselListenerFocusOutIgnored(ev) ==
    IF cpc # "running" THEN running
    ELSE IF ev \in PauseEvents THEN FALSE
    ELSE IF ev = "mouseleave" THEN TRUE ELSE running

carouselListener(ev) ==
    IF cpc # "running" THEN running
    ELSE IF ev \in PauseEvents THEN FALSE ELSE TRUE

\* mouseenter / focusin on the carousel
CarouselPause ==
    /\ \E ev \in PauseEvents :
          /\ running' = carouselListener(ev)
          /\ lastCarouselEvent' = ev
          /\ handledEvent' = IF cpc = "running" THEN ev ELSE handledEvent
    /\ UNCHANGED <<cpc, originalTotalWidth, pxPerSecond, px, last, stepPending,
                   clock, measured, prevCallback, elapsed, everPaused, everLongStep,
                   resumedFrame>>
    /\ UNCHANGED <<particleVars, formVars, shellVars, pageVars>>

\* mouseleave / focusout on the carousel
CarouselResume ==
    /\ \E ev \in ResumeEvents :
          /\ running' = carouselListener(ev)
          /\ lastCarouselEvent' = ev
          /\ handledEvent' = IF cpc = "running" THEN ev ELSE handledEvent
    /\ UNCHANGED <<cpc, originalTotalWidth, pxPerSecond, px, last, stepPending,
                   clock, measured, prevCallback, elapsed, everPaused, everLongStep,
                   resumedFrame>>
    /\ UNCHANGED <<particleVars, formVars, shellVars, pageVars>>

----------------------------------------------------------------------------
(* Lightbox *)

\* the modal as the page delivers it: hidden, no image
ClosedModal == [ariaHidden |-> TRUE, src |-> "", alt |-> "", title |-> "", href |-> ""]

\* carousel items: the src and alt of the image, data-title, the text of
\* the figcaption ("" when there is none)
ItemSamples ==
    { [src |-> "a.png", alt |-> "Cert A", datasetTitle |-> "Title A", caption |-> "Cap A"],
      [src |-> "b.png", alt |-> "", datasetTitle |-> "", caption |-> "Cap B"],
      [src |-> "c.png", alt |-> "", datasetTitle |-> "", caption |-> ""] }

\* a || b on strings
Or(a, b) == IF a # "" THEN a ELSE b

\* openModal and closeModal give the modal and document.body.style.overflow
openModal(imgSrc, altText, title) ==
    [modal |-> [ariaHidden |-> FALSE, src |-> imgSrc,
                alt |-> Or(altText, Or(title, "Certificate")),
                title |-> Or(title, ""), href |-> imgSrc],
     overflow |-> "hidden"]

closeModalKeepsOverflow ==
    [modal |-> [modal EXCEPT !.ariaHidden = TRUE, !.src = ""],
     overflow |-> bodyOverflow]

closeModal ==
    [modal |-> [modal EXCEPT !.ariaHidden = TRUE, !.src = ""],
     overflow |-> ""]

Lightbox == [modal |-> modal, overflow |-> bodyOverflow]

\* the lightbox listeners exist once waitForImages has resolved
Registered == cpc = "running"

\* the click listener of the track, for a click inside a carousel item
trackClick(item) ==
    IF ~Registered THEN Lightbox
    ELSE openModal(item.src, item.alt, Or(item.datasetTitle, Or(item.caption, "")))

\* the click listener of the close control
modalCloseClick == IF Registered THEN closeModal ELSE Lightbox

\* the click listener of the modal: target is "backdrop" (the modal
\* itself) or "content" (an element inside it)
modalClick(target) ==
    IF Registered /\ target = "backdrop" THEN closeModal ELSE Lightbox

\* the keydown listener of the document
keydown(key) == IF Registered /\ key = "Escape" THEN closeModal ELSE Lightbox

TrackClick ==
    /\ \E item \in ItemSamples :
          /\ modal' = trackClick(item).modal
          /\ bodyOverflow' = trackClick(item).overflow
    /\ lastModalEvent' = "item"
    /\ UNCHANGED <<carouselVars, loadVars, resizeVars>>
    /\ UNCHANGED <<particleVars, formVars, shellVars>>

ModalCloseClick ==
    /\ modal' = modalCloseClick.modal
    /\ bodyOverflow' = modalCloseClick.overflow
    /\ lastModalEvent' = "closeControl"
    /\ UNCHANGED <<carouselVars, loadVars, resizeVars>>
    /\ UNCHANGED <<particleVars, formVars, shellVars>>

ModalClick ==
    /\ \E target \in { "backdrop", "content" } :
          /\ modal' = modalClick(target).modal
          /\ bodyOverflow' = modalClick(target).overflow
          /\ lastModalEvent' = target
    /\ UNCHANGED <<carouselVars, loadVars, resizeVars>>
    /\ UNCHANGED <<particleVars, formVars, shellVars>>

KeyDown ==
    /\ \E key \in { "Escape", "Enter" } :
          /\ modal' = keydown(key).modal
          /\ bodyOverflow' = keydown(key).overflow
          /\ lastModalEvent' = key
    /\ UNCHANGED <<carouselVars, loadVars, resizeVars>>
    /\ UNCHANGED <<particleVars, formVars, shellVars>>

----------------------------------------------------------------------------
(* Reload on resize *)

ReloadDelay == 250
MaxReloads == 2
MaxTimerId == 3
ResizeTickSamples == { 125 }

Min(a, b) == IF a < b THEN a ELSE b
Max0(a) == IF a < 0 THEN 0 ELSE a

Restrict(f, S) == [h \in S |-> f[h]]

\* clearTimeout(handle): an unknown or undefined handle is ignored
clearTimeout(ts, handle) == Restrict(ts, DOMAIN ts \ {handle})

\* the resize listener: the pending timers and resizeTimer after it ran
resizeListenerNoClear ==
    [timers |-> [h \in DOMAIN timers \cup {nextTimer} |->
                    IF h = nextTimer THEN ReloadDelay ELSE timers[h]],
     resizeTimer |-> nextTimer]

resizeListener ==
    LET cleared == clearTimeout(timers, resizeTimer)
    IN  [timers |-> [h \in DOMAIN cleared \cup {nextTimer} |->
                        IF h = nextTimer THEN ReloadDelay ELSE cleared[h]],
         resizeTimer |-> nextTimer]

\* a resize event of the window
Resize ==
    /\ reloads < MaxReloads
    /\ nextTimer <= MaxTimerId
    /\ resizeAwaited' = TRUE
    /\ IF Registered
       THEN /\ timers' = resizeListener.timers
            /\ resizeTimer' = resizeListener.resizeTimer
            /\ nextTimer' = nextTimer + 1
            /\ sinceResize' = 0
       ELSE UNCHANGED <<timers, resizeTimer, nextTimer, sinceResize>>
    /\ UNCHANGED reloads
    /\ UNCHANGED <<carouselVars, loadVars, lightboxVars>>
    /\ UNCHANGED <<particleVars, formVars, shellVars>>

\* time passes while a reload timer is pending and none is due
ResizeTick ==
    /\ DOMAIN timers # {}
    /\ \A h \in DOMAIN timers : timers[h] > 0
    /\ \E d \in ResizeTickSamples :
          /\ timers' = [h \in DOMAIN timers |-> Max0(timers[h] - d)]
          /\ sinceResize' = Min(ReloadDelay, sinceResize + d)
    /\ UNCHANGED <<resizeTimer, nextTimer, reloads, resizeAwaited>>
    /\ UNCHANGED <<carouselVars, loadVars, lightboxVars>>
    /\ UNCHANGED <<particleVars, formVars, shellVars>>

----------------------------------------------------------------------------
(* Contact form *)

\* success notices that may be on the page at once
MaxNotices == 2

NoticeIds == 1..MaxNotices
NoticeDelay == 3000
\* time steps of the timer clock, ms
TickSamples == { 1500 }

\* Object.keys(data): the named controls in document order
Fields == <<"name", "email", "message">>
FieldSet == { Fields[i] : i \in 1..Len(Fields) }

Empty == << >>
\* what the user may type into each control
ValueSamples ==
    [name |-> { Empty, <<" ", " ">>, <<"A">>, <<" ", "A", "l">> },
     email |-> { Empty, <<"b", "a", "d">>, <<"a", "@", "b">>, <<"a", "@", "b", ".", "c", "o", "m">> },
     message |-> { Empty, <<"h", "i">>, <<"H", "e", "l", "l", "o", " ", "t", "h", "e", "r", "e", ",", " ", "t", "h", "i", "s", " ", "i", "s", " ", "l", "o", "n", "g", " ", "e", "n", "o", "u", "g", "h", ".">> }]

Whitespace == { " " }

RECURSIVE TrimLeft(_)
TrimLeft(s) == IF s # << >> /\ Head(s) \in Whitespace THEN TrimLeft(Tail(s)) ELSE s
RECURSIVE TrimRight(_)
TrimRight(s) ==
    IF s # << >> /\ s[Len(s)] \in Whitespace THEN TrimRight(SubSeq(s, 1, Len(s) - 1)) ELSE s
\* String.prototype.trim
Trim(s) == TrimRight(TrimLeft(s))

\* /^[^\s@]+@[^\s@]+\.[^\s@]+$/.test(s)
emailRegexTest(s) ==
    \E a \in 1..Len(s), d \in 1..Len(s) :
        /\ s[a] = "@"
        /\ s[d] = "."
        /\ 1 < a /\ a + 1 < d /\ d < Len(s)
        /\ \A i \in 1..Len(s) : i # a => s[i] \notin (Whitespace \cup {"@"})

\* validateField, the switch: the result and the message for a field value
validateSwitch(fieldName, raw) ==
    LET value == Trim(raw)
    IN  CASE fieldName = "name" ->
               IF value = << >> THEN [isValid |-> FALSE, errorMessage |-> "Name is required"]
               ELSE IF Len(value) < 2
                    THEN [isValid |-> FALSE, errorMessage |-> "Name must be at least 2 characters"]
                    ELSE [isValid |-> TRUE, errorMessage |-> ""]
          [] fieldName = "email" ->
               IF value = << >> THEN [isValid |-> FALSE, errorMessage |-> "Email is required"]
               ELSE IF ~emailRegexTest(value)
                    THEN [isValid |-> FALSE, errorMessage |-> "Please enter a valid email address"]
                    ELSE [isValid |-> TRUE, errorMessage |-> ""]
          [] fieldName = "message" ->
               IF value = << >> THEN [isValid |-> FALSE, errorMessage |-> "Message is required"]
               ELSE IF Len(value) < 10
                    THEN [isValid |-> FALSE, errorMessage |-> "Message must be at least 10 characters"]
                    ELSE [isValid |-> TRUE, errorMessage |-> ""]
          [] OTHER -> [isValid |-> TRUE, errorMessage |-> ""]

\* the error display of the form: class 'error' of each field, text and
\* class 'show' of each error element
Display(cls, txt, shown) == [errorClass |-> cls, errorText |-> txt, errorShown |-> shown]

\* showFieldError(field, message, hasError) applied to a display
showFieldError(disp, fieldName, message, hasError) ==
    IF hasError
    THEN Display([disp.errorClass EXCEPT ![fieldName] = TRUE],
                 [disp.errorText EXCEPT ![fieldName] = message],
                 [disp.errorShown EXCEPT ![fieldName] = TRUE])
    ELSE Display([disp.errorClass EXCEPT ![fieldName] = FALSE],
                 [disp.errorText EXCEPT ![fieldName] = ""],
                 [disp.errorShown EXCEPT ![fieldName] = FALSE])

clearErrorTextOnly(disp, fieldName) ==
    [disp EXCEPT !.errorText[fieldName] = "", !.errorShown[fieldName] = FALSE]

\* clearError(field)
clearError(disp, fieldName) == showFieldError(disp, fieldName, "", FALSE)

\* validateField(field): the display afterwards and the returned isValid
validateField(disp, fieldName, raw) ==
    LET r == validateSwitch(fieldName, raw)
        cleared == [disp EXCEPT !.errorClass[fieldName] = FALSE]
    IN  [display |-> showFieldError(cleared, fieldName, r.errorMessage, ~r.isValid),
         isValid |-> r.isValid]

RECURSIVE validateAllStopAtFirst(_, _, _)
validateAllStopAtFirst(disp, vals, i) ==
    IF i > Len(Fields) THEN [display |-> disp, isValid |-> TRUE]
    ELSE LET r == validateField(disp, Fields[i], vals[Fields[i]])
         IN  IF ~r.isValid THEN [display |-> r.display, isValid |-> FALSE]
             ELSE validateAllStopAtFirst(r.display, vals, i + 1)

RECURSIVE validateAll(_, _, _)
\* handleFormSubmit, the forEach over Object.keys(data) from the i-th key on
validateAll(disp, vals, i) ==
    IF i > Len(Fields) THEN [display |-> disp, isValid |-> TRUE]
    ELSE LET r == validateField(disp, Fields[i], vals[Fields[i]])
             rest == validateAll(r.display, vals, i + 1)
         IN  [display |-> rest.display, isValid |-> r.isValid /\ rest.isValid]

\* showSuccessMessage: the notice it appends and the delay of its removal timer
showSuccessMessageShortDelay == [remaining |-> NoticeDelay \div 2, age |-> 0]

showSuccessMessage == [remaining |-> NoticeDelay, age |-> 0]

\* contactForm.reset(): every control back to its default value
resetValues == [f \in FieldSet |-> Empty]

CurrentDisplay == Display(errorClass, errorText, errorShown)

SetDisplay(d) ==
    /\ errorClass' = d.errorClass
    /\ errorText' = d.errorText
    /\ errorShown' = d.errorShown

\* the submit listener
handleFormSubmit ==
    LET r == validateAll(CurrentDisplay, values, 1)
    IN  /\ SetDisplay(r.display)
        /\ IF r.isValid
           THEN /\ \E id \in NoticeIds \ DOMAIN notices :
                      notices' = [n \in DOMAIN notices \cup {id} |->
                                     IF n = id THEN showSuccessMessage ELSE notices[n]]
                /\ values' = resetValues
                /\ didReset' = TRUE
           ELSE /\ UNCHANGED <<notices, values>>
                /\ didReset' = FALSE

FormSubmit ==
    /\ handleFormSubmit
    /\ lastEvent' = "submit"
    /\ UNCHANGED <<particleVars, carouselVars, shellVars, pageVars>>

\* the user edits a control: its value changes and the input listener runs
FormInput ==
    /\ \E f \in FieldSet : \E v \in ValueSamples[f] :
          /\ v # values[f]
          /\ values' = [values EXCEPT ![f] = v]
          /\ SetDisplay(clearError(CurrentDisplay, f))
    /\ lastEvent' = "input"
    /\ didReset' = FALSE
    /\ UNCHANGED notices
    /\ UNCHANGED <<particleVars, carouselVars, shellVars, pageVars>>

\* a control loses focus: the blur listener runs
FormBlur ==
    /\ \E f \in FieldSet :
          SetDisplay(validateField(CurrentDisplay, f, values[f]).display)
    /\ lastEvent' = "blur"
    /\ didReset' = FALSE
    /\ UNCHANGED <<values, notices>>
    /\ UNCHANGED <<particleVars, carouselVars, shellVars, pageVars>>

\* time passes: d ms for every pending notice timer
Tick ==
    /\ \E n \in DOMAIN notices : notices[n].remaining > 0
    /\ \E d \in TickSamples :
          notices' = [n \in DOMAIN notices |->
                        [remaining |-> IF notices[n].remaining > d
                                       THEN notices[n].remaining - d ELSE 0,
                         age |-> IF notices[n].age + d < NoticeDelay
                                 THEN notices[n].age + d ELSE NoticeDelay]]
    /\ lastEvent' = "timer"
    /\ UNCHANGED <<values, errorClass, errorText, errorShown, didReset>>
    /\ UNCHANGED <<particleVars, carouselVars, shellVars, pageVars>>

\* the timer of notice id expires: successDiv.remove()
NoticeTimeout(id) ==
    /\ id \in DOMAIN notices
    /\ notices[id].remaining = 0
    /\ notices' = [n \in DOMAIN notices \ {id} |-> notices[n]]
    /\ lastEvent' = "timer"
    /\ UNCHANGED <<values, errorClass, errorText, errorShown, didReset>>
    /\ UNCHANGED <<particleVars, carouselVars, shellVars, pageVars>>

\* a due reload timer fires: location.reload() replaces the page by a
\* fresh one, whose images may again be loading; what the browser stores
\* and the environment stay
ResizeTimeout ==
    /\ \E h \in DOMAIN timers : timers[h] = 0
    /\ reloads' = reloads + 1
    /\ resizeAwaited' = FALSE
    /\ resizeTimer' = 0 /\ timers' = << >> /\ nextTimer' = 1 /\ sinceResize' = sinceResize
    /\ modal' = ClosedModal /\ bodyOverflow' = "" /\ lastModalEvent' = "none"
    /\ imgState' \in [Images -> ImgStates]
    /\ imgResolved' = { i \in Images : complete(imgState'[i]) }
    /\ cpc' = "waiting" /\ originalTotalWidth' = Num(0) /\ pxPerSecond' = Num(0)
    /\ px' = Num(0) /\ last' = 0 /\ running' = TRUE /\ stepPending' = 0
    /\ clock' = 0 /\ measured' = Num(0) /\ prevCallback' = 0 /\ elapsed' = 0
    /\ everPaused' = FALSE /\ everLongStep' = FALSE /\ resumedFrame' = FALSE
    /\ lastCarouselEvent' = "none" /\ handledEvent' = "none"
    /\ pc' = "loading" /\ mousePosition' = [x |-> 0, y |-> 0] /\ particles' = FALSE
    /\ positions' = << >> /\ velocities' = << >> /\ sizes' = << >> /\ colors' = << >>
    /\ timeUniform' = 0 /\ animationId' = 0 /\ rafQueue' = {} /\ nextRaf' = 1
    /\ values' = resetValues
    /\ errorClass' = [f \in FieldSet |-> FALSE]
    /\ errorText' = [f \in FieldSet |-> ""]
    /\ errorShown' = [f \in FieldSet |-> FALSE]
    /\ notices' = << >> /\ lastEvent' = "none" /\ didReset' = FALSE
    /\ currentTheme' = "dark" /\ dataTheme' = Unset /\ iconText' = Unset
    /\ toggleCount' = 0 /\ themeBefore' = << >> /\ textContent' = << >>
    /\ currentIndex' = 0 /\ isTyping' = FALSE /\ typeTimers' = 0
    /\ UNCHANGED <<hasThree, hidden, storedTheme, prefersDark>>

----------------------------------------------------------------------------
(* Specifications *)

InitParticleVars ==
    /\ pc = "loading"
    /\ hasThree \in BOOLEAN
    /\ hidden \in BOOLEAN
    /\ mousePosition = [x |-> 0, y |-> 0]
    /\ particles = FALSE
    /\ positions = << >>
    /\ velocities = << >>
    /\ sizes = << >>
    /\ colors = << >>
    /\ timeUniform = 0
    /\ animationId = 0
    /\ rafQueue = {}
    /\ nextRaf = 1

InitCarouselVars ==
    /\ cpc = "waiting"
    /\ originalTotalWidth = Num(0)
    /\ pxPerSecond = Num(0)
    /\ px = Num(0)
    /\ last = 0
    /\ running = TRUE
    /\ stepPending = 0
    /\ clock = 0
    /\ measured = Num(0)
    /\ prevCallback = 0
    /\ elapsed = 0
    /\ everPaused = FALSE
    /\ everLongStep = FALSE
    /\ resumedFrame = FALSE
    /\ lastCarouselEvent = "none"
    /\ handledEvent = "none"

InitFormVars ==
    /\ values = resetValues
    /\ errorClass = [f \in FieldSet |-> FALSE]
    /\ errorText = [f \in FieldSet |-> ""]
    /\ errorShown = [f \in FieldSet |-> FALSE]
    /\ notices = << >>
    /\ lastEvent = "none"
    /\ didReset = FALSE

InitShellVars ==
    /\ storedTheme \in StoredSamples
    /\ prefersDark \in BOOLEAN
    /\ currentTheme = "dark"
    /\ dataTheme = Unset
    /\ iconText = Unset
    /\ toggleCount = 0
    /\ themeBefore = << >>
    /\ textContent = << >>
    /\ currentIndex = 0
    /\ isTyping = FALSE
    /\ typeTimers = 0

\* the state in which the DOMContentLoaded handler of the carousel leaves
\* the images: the promise of a complete image is resolved at once
InitLoadVars ==
    /\ imgState \in [Images -> ImgStates]
    /\ imgResolved = { i \in Images : complete(imgState[i]) }

InitLightboxVars ==
    /\ modal = ClosedModal
    /\ bodyOverflow = ""
    /\ lastModalEvent = "none"

InitResizeVars ==
    /\ resizeTimer = 0
    /\ timers = << >>
    /\ nextTimer = 1
    /\ reloads = 0
    /\ sinceResize = 0
    /\ resizeAwaited = FALSE

Init ==
    /\ InitParticleVars /\ InitCarouselVars /\ InitFormVars /\ InitShellVars
    /\ InitLoadVars /\ InitLightboxVars /\ InitResizeVars

\* a first visit: nothing stored, dark colour scheme preferred, the
\* carousel images already complete
InitFirstVisit ==
    /\ Init /\ storedTheme = NullTheme /\ prefersDark
    /\ \A i \in Images : imgState[i] = "loaded"

\* the page with the 3D library loaded and the tab in front
InitPage == InitFirstVisit /\ hasThree /\ ~hidden

\* the page without the 3D library, the tab in front
InitNoThree == Init /\ ~hasThree /\ ~hidden /\ \A i \in Images : imgState[i] = "loaded"

\* the particle background
NextParticles == AppInit \/ ParticleFrame \/ VisibilityChange \/ MouseMove
SpecParticles == InitFirstVisit /\ [][NextParticles]_vars

\* the carousel
NextCarousel == CarouselSetup \/ CarouselFrame \/ CarouselPause \/ CarouselResume
SpecCarousel == InitPage /\ [][NextCarousel]_vars

\* the contact form; timers whose delay has passed do fire, and time does pass
NextForm == FormSubmit \/ FormInput \/ FormBlur \/ Tick \/ (\E id \in NoticeIds : NoticeTimeout(id))
SpecForm == InitPage /\ [][NextForm]_vars
SpecFormFair == SpecForm /\ WF_vars(Tick) /\ \A id \in NoticeIds : WF_vars(NoticeTimeout(id))

\* the carousel on a page whose visibility changes (no 3D library)
NextCarouselVisibility == NextCarousel \/ AppInit \/ VisibilityChange
InitQuiet == InitFirstVisit /\ ~hasThree /\ ~hidden
SpecCarouselVisibility == InitQuiet /\ [][NextCarouselVisibility]_vars

\* the carousel images settle and the carousel is set up; a resolved
\* promise does run its then-callback
NextLoad == ImageLoad \/ ImageError \/ CarouselSetup \/ CarouselPause \/ CarouselResume
InitLoad == Init /\ storedTheme = NullTheme /\ prefersDark /\ hasThree /\ ~hidden
SpecLoad == InitLoad /\ [][NextLoad]_vars
SpecLoadFair == SpecLoad /\ WF_vars(CarouselSetup)

\* the lightbox
NextLightbox == CarouselSetup \/ TrackClick \/ ModalCloseClick \/ ModalClick \/ KeyDown
SpecLightbox == InitPage /\ [][NextLightbox]_vars

\* the reload on resize; timers that are due do fire
NextResize ==
    \/ ImageLoad \/ ImageError \/ CarouselSetup
    \/ Resize \/ ResizeTick \/ ResizeTimeout
SpecResize == InitPage /\ [][NextResize]_vars
SpecResizeFair ==
    /\ SpecResize
    /\ WF_vars(CarouselSetup) /\ WF_vars(ResizeTick) /\ WF_vars(ResizeTimeout)

\* theme and typewriter; init() runs and pending timers do fire
NextShell == AppInit \/ ToggleTheme \/ TypewriterTick
SpecShell == InitNoThree /\ [][NextShell]_vars
SpecShellFair == SpecShell /\ WF_vars(AppInit) /\ WF_vars(TypewriterTick)

----------------------------------------------------------------------------
(* Properties *)

\* C1: once the particles exist, every particle has -15 <= y <= 15,
\* -20 <= x <= 20 and -10 <= z <= 10, whatever the pointer position.
C1_ParticlesInBounds ==
    particles =>
        \A i \in Idx :
            /\ -YBound <= positions[i].y /\ positions[i].y <= YBound
            /\ -XBound <= positions[i].x /\ positions[i].x <= XBound
            /\ -ZBound <= positions[i].z /\ positions[i].z <= ZBound

\* C2: while the page is visible and the particle loop has been started, a
\* particle frame callback is pending: a loop that stopped on a hidden frame
\* has been restarted when the page is visible again.
C2_VisibleLoopRuns ==
    (pc = "ready" /\ ~hidden /\ animationId # 0) => rafQueue # {}

\* C3: at most one particle frame callback is pending at any time.
C3_AtMostOnePending == Cardinality(rafQueue) <= 1

\* the loop was started by the visibilitychange listener (no 3D library),
\* frames have run and one callback is pending
C3_Witness == ~hasThree /\ nextRaf > 2 /\ Cardinality(rafQueue) = 1

\* the carousel offset is a number in [0, originalTotalWidth)
OffsetInRange ==
    /\ px.k = "num" /\ originalTotalWidth.k = "num"
    /\ 0 <= px.v /\ px.v < 1000 * originalTotalWidth.v

\* C4 as stated: after carousel initialisation 0 <= px < singleSetWidth,
\* for any interval between callbacks.
C4_OffsetInRangeAnyDt == cpc = "running" => OffsetInRange

\* C4 as amended: after carousel initialisation 0 <= px < singleSetWidth,
\* as long as pxPerSecond * dt < singleSetWidth held for every callback
\* that ran while the carousel was running.
C4_OffsetInRangeShortSteps == (cpc = "running" /\ ~everLongStep) => OffsetInRange

\* short steps only, and their sum has carried the offset past the period
C4_Witness ==
    /\ cpc = "running" /\ ~everLongStep /\ pxPerSecond.k = "num"
    /\ px.k = "num" /\ px.v > 0 /\ elapsed > 0
    /\ pxPerSecond.v * elapsed > 1000 * originalTotalWidth.v + px.v

\* C5: never paused and pxPerSecond * dt < S on every frame: after frames
\* whose intervals sum to T the offset is (pxPerSecond * T) mod S.
C5_OffsetIsModulo ==
    (cpc = "running" /\ ~everPaused /\ ~everLongStep) =>
        px = Num((pxPerSecond.v * elapsed) % (1000 * originalTotalWidth.v))

\* an unpaused run of short steps that has wrapped
C5_Witness ==
    /\ cpc = "running" /\ ~everPaused /\ ~everLongStep /\ elapsed > 0
    /\ pxPerSecond.v * elapsed >= 1000 * originalTotalWidth.v

\* C6: a frame callback that runs while running is false leaves the offset
\* unchanged; one that runs while running is true adds pxPerSecond times the
\* interval since the previous frame callback (wrapped once) to the offset
\* it finds.
C6_PauseFreezesOffset ==
    [][ (cpc = "running" /\ prevCallback' # prevCallback) =>
            IF ~running THEN px' = px
            ELSE LET sum == px.v + pxPerSecond.v * (prevCallback' - prevCallback)
                     S == 1000 * originalTotalWidth.v
                 IN  px' = Num(IF sum >= S THEN sum - S ELSE sum) ]_vars

\* frames ran while paused, then one ran after the resume, and more time
\* has passed than the offset accounts for
C6_Witness ==
    /\ cpc = "running" /\ resumedFrame /\ running /\ ~everLongStep
    /\ px.v > 0 /\ px.v < pxPerSecond.v * elapsed

\* C7: after setup originalTotalWidth is finite and greater than 0, and it
\* is exactly 1000 when the measured width was 0, NaN or infinite.
C7_WidthFallback ==
    cpc = "running" =>
        /\ originalTotalWidth.k = "num" /\ originalTotalWidth.v > 0
        /\ (measured.k # "num" \/ measured.v = 0) => originalTotalWidth = Num(1000)

\* the measurement was not finite
C7_Witness == cpc = "running" /\ measured.k # "num"

\* C8: once the particles exist no step changes the velocity, size or
\* colour arrays.
C8_ArraysImmutable ==
    [][ particles => (velocities' = velocities /\ sizes' = sizes /\ colors' = colors) ]_vars

\* the particles exist and at least two frames have advanced them
C8_Witness == particles /\ nextRaf > 2 /\ timeUniform # 0

ExampleInvalid ==
    [name |-> Empty, email |-> <<"b", "a", "d">>, message |-> <<"h", "i">>]
ExampleErrors ==
    [name |-> "Name is required",
     email |-> "Please enter a valid email address",
     message |-> "Message must be at least 10 characters"]

Invalid(f) == ~validateSwitch(f, values[f]).isValid

\* C9: a submit with some invalid field shows the error of every invalid
\* field, adds no success notice and does not reset the form; the values
\* "", "bad", "hi" give the three messages of ExampleErrors.
C9_InvalidSubmit ==
    [][ (lastEvent' = "submit" /\ \E f \in FieldSet : Invalid(f)) =>
            /\ \A f \in FieldSet :
                  Invalid(f) => /\ errorClass'[f] /\ errorShown'[f]
                                /\ errorText'[f] = validateSwitch(f, values[f]).errorMessage
                                /\ errorText'[f] # ""
            /\ notices' = notices
            /\ values' = values
            /\ ~didReset'
            /\ (values = ExampleInvalid => errorText' = ExampleErrors) ]_vars

\* the example has been submitted
C9_Witness ==
    /\ lastEvent = "submit" /\ values = ExampleInvalid
    /\ errorText = ExampleErrors /\ \A f \in FieldSet : errorClass[f]

\* C10: a submit with every field valid clears all field errors, resets
\* the form and adds a success notice; a notice is removed only once 3000 ms
\* have passed since it was added, and every notice is eventually removed.
C10_ValidSubmit ==
    /\ [][ (lastEvent' = "submit" /\ \A f \in FieldSet : ~Invalid(f)) =>
              /\ \A f \in FieldSet : ~errorClass'[f] /\ ~errorShown'[f] /\ errorText'[f] = ""
              /\ values' = [f \in FieldSet |-> Empty]
              /\ didReset'
              /\ \E id \in DOMAIN notices' \ DOMAIN notices :
                    /\ notices'[id].age = 0
                    /\ \A n \in DOMAIN notices : notices'[n] = notices[n] ]_vars
    /\ [][ \A id \in DOMAIN notices \ DOMAIN notices' : notices[id].age >= 3000 ]_vars
    /\ \A id \in NoticeIds : (id \in DOMAIN notices) ~> (id \notin DOMAIN notices)

\* two notices of overlapping valid submissions are on the page
C10_Witness ==
    /\ lastEvent = "submit" /\ didReset
    /\ Cardinality(DOMAIN notices) >= 2
    /\ \E a, b \in DOMAIN notices : notices[a].age = 0 /\ notices[b].age > 0

\* C11: after two toggleTheme calls currentTheme is what it was before
\* them, whatever theme setupTheme established, and the stored entry equals
\* currentTheme.
C11_ToggleTwice ==
    toggleCount = 2 => (currentTheme = themeBefore[1] /\ storedTheme = currentTheme)

\* C19: the typewriter shows a prefix of TYPEWRITER_TEXT, at most one of
\* its timers is pending, a tick adds exactly the next character while the
\* text is incomplete and nothing otherwise, and the effect terminates:
\* isTyping becomes false with the full text shown and no timer pending,
\* and stays so.
C19_Typewriter ==
    /\ [](pc = "ready" =>
            /\ Len(textContent) <= Len(TYPEWRITER_TEXT)
            /\ textContent = SubSeq(TYPEWRITER_TEXT, 1, Len(textContent))
            /\ typeTimers <= 1)
    /\ [][ (pc = "ready" /\ (typeTimers' # typeTimers \/ textContent' # textContent)) =>
              IF Len(textContent) < Len(TYPEWRITER_TEXT)
              THEN textContent' = Append(textContent, TYPEWRITER_TEXT[Len(textContent) + 1])
              ELSE textContent' = textContent /\ typeTimers' = 0 /\ ~isTyping' ]_vars
    /\ [][ (pc = "ready" /\ ~isTyping) => (~isTyping' /\ typeTimers' = 0) ]_vars
    /\ <>[](~isTyping /\ typeTimers = 0 /\ textContent = TYPEWRITER_TEXT)

\* the whole text has been typed and the last timer has run
C19_Witness ==
    pc = "ready" /\ ~isTyping /\ typeTimers = 0 /\ textContent = TYPEWRITER_TEXT

\* C20: after setupTheme the data-theme attribute equals currentTheme, and
\* once a toggle has happened the stored entry equals currentTheme and is
\* 'dark' or 'light'.
C20_ThemeConsistent ==
    /\ (pc = "ready" => dataTheme = currentTheme)
    /\ (toggleCount > 0 => (storedTheme = currentTheme /\ storedTheme \in {"dark", "light"}))

\* toggled after a start from a stored value that is neither dark nor light
C20_Witness ==
    /\ toggleCount > 0 /\ themeBefore[1] = "auto"
    /\ dataTheme = currentTheme /\ storedTheme = currentTheme

\* C12 as stated: without the 3D library (or the canvas) the particle field
\* is still created by init().
C12_FieldCreatedWithoutThree == (pc = "ready" /\ ~hasThree) => particles

\* C12 as amended: without the 3D library (or the canvas) no particle field
\* is created and no frame, whoever started the loop, advances a position
\* or the time uniform.
C12_NoFieldWithoutThree ==
    ~hasThree => (~particles /\ positions = << >> /\ velocities = << >> /\ timeUniform = 0)

\* without the library the listener has started the loop and frames have run
C12_Witness == pc = "ready" /\ ~hasThree /\ animationId > 1 /\ ~hidden /\ ~particles

\* C13: after initialisation exactly one carousel frame callback is
\* pending, whatever the page visibility and the running flag.
C13_OneStepPending == cpc = "running" => stepPending = 1

\* frames have run while paused, the page is hidden, a callback is pending
C13_Witness ==
    /\ cpc = "running" /\ hidden /\ ~running /\ everPaused /\ elapsed > 0
    /\ stepPending = 1

AllImagesFinished == \A i \in Images : imgState[i] # "loading"

\* C14: the carousel is initialised only after every image has loaded or
\* failed, and once every image has loaded or failed it is initialised.
C14_SetupAfterImages ==
    /\ [](cpc = "running" => AllImagesFinished)
    /\ (AllImagesFinished ~> cpc = "running")

\* the carousel runs although an image failed
C14_Witness ==
    /\ cpc = "running"
    /\ \E i \in Images : imgState[i] = "failed"

\* C15 (as stated): running is false exactly when the last of the four
\* events on the carousel was a mouseenter or a focusin.
C15_LastEventWinsAlways ==
    cpc = "running" => (running <=> lastCarouselEvent \notin PauseEvents)

\* C15: running is false exactly when the last of the four events that
\* occurred after carousel initialisation was a mouseenter or a focusin.
C15_LastHandledEventWins ==
    cpc = "running" => (running <=> handledEvent \notin PauseEvents)

\* a focusout was the last event, after frames ran while paused
C15_Witness ==
    cpc = "running" /\ handledEvent = "focusout" /\ running /\ everPaused

CloseEvents == { "closeControl", "backdrop", "Escape" }

\* C17: page scroll is suspended exactly while the modal is visible; every
\* close leaves the modal hidden, the image source cleared and scroll
\* restored; closing a closed modal changes nothing.
C17_Lightbox ==
    /\ []((bodyOverflow = "hidden") <=> ~modal.ariaHidden)
    /\ [][lastModalEvent' \in CloseEvents
            => (modal'.ariaHidden /\ modal'.src = "" /\ bodyOverflow' = "")]_vars
    /\ [][(lastModalEvent' \in CloseEvents /\ modal.ariaHidden)
            => (modal' = modal /\ bodyOverflow' = bodyOverflow)]_vars

\* the modal was opened and then closed by the Escape key
C17_Witness ==
    /\ Registered /\ lastModalEvent = "Escape"
    /\ modal.ariaHidden /\ modal.href # "" /\ modal.src = "" /\ bodyOverflow = ""

\* C16 (as stated): at most one reload timer is pending and every resize
\* event is followed by a reload.
C16_EveryResizeReloads ==
    /\ [](Cardinality(DOMAIN timers) <= 1)
    /\ (resizeAwaited ~> ~resizeAwaited)

\* C16: at most one reload timer is pending; a reload happens only 250 ms
\* after the last resize handled and leaves no timer pending; a resize that
\* the listener handled is followed by a reload.
C16_HandledResizeReloads ==
    /\ [](Cardinality(DOMAIN timers) <= 1)
    /\ [][reloads' # reloads
            => (sinceResize >= ReloadDelay /\ DOMAIN timers' = {})]_vars
    /\ ((DOMAIN timers # {}) ~> (DOMAIN timers = {}))

\* a second reload has happened, each after its own burst
C16_Witness == reloads = 2 /\ DOMAIN timers = {} /\ sinceResize = ReloadDelay

\* C18: an input event on a field clears the error of that field and
\* leaves the error state of every other field as it was; validating a
\* field always yields a verdict.
C18_InputClearsOwnError ==
    /\ [][\A f \in FieldSet :
            (lastEvent' = "input" /\ values'[f] # values[f])
               => /\ ~errorClass'[f] /\ errorText'[f] = "" /\ ~errorShown'[f]
                  /\ \A g \in FieldSet \ {f} :
                        /\ errorClass'[g] = errorClass[g]
                        /\ errorText'[g] = errorText[g]
                        /\ errorShown'[g] = errorShown[g]]_vars
    /\ [](\A f \in FieldSet :
            validateField(CurrentDisplay, f, values[f]).isValid \in BOOLEAN)

\* after an input: a field whose value is invalid shows no error while
\* another field still shows the error validation gave it
C18_Witness ==
    /\ lastEvent = "input"
    /\ \E f \in FieldSet : Invalid(f) /\ values[f] # Empty /\ ~errorClass[f]
    /\ \E g \in FieldSet : errorClass[g] /\ errorShown[g] /\ errorText[g] # ""

====
